---- MODULE Spec2Model ----
(***************************************************************************)
(* Monte Carlo trading-strategy simulator (monte_carlo_simulator.py).      *)
(*                                                                         *)
(* The state is one MonteCarloSimulator object (stats, config, results),   *)
(* the position of run_simulation in its loops, the locals of the running  *)
(* _run_single_simulation call, and the analyses the caller has received.  *)
(*                                                                         *)
(* Floats are modelled as exact rationals <<numerator, denominator>> in    *)
(* lowest terms with a positive denominator.  float('inf') is <<1, 0>> and *)
(* NaN is <<0, 0>>.  A standard deviation is carried as its square (the    *)
(* variance) and the Sharpe ratio as its sign and its square, so that no   *)
(* square root is needed.                                                  *)
(***************************************************************************)
EXTENDS Integers, Sequences, FiniteSets, TLC

(***************************************************************************)
(* Bounds of the model.                                                    *)
(***************************************************************************)
MaxTrades == 2          \* num_trades ranges over 0..MaxTrades
MaxSims == 2            \* num_simulations ranges over 1..MaxSims
MaxTotalTrades == 3     \* num_simulations * num_trades <= MaxTotalTrades
MaxRuns == 2            \* run_simulation calls whose output is kept (SpecLog)
MaxDays == 2            \* total_days ranges over 1..MaxDays (SpecPlan)

(***************************************************************************)
(* Float arithmetic on exact rationals.                                    *)
(***************************************************************************)
\* F applied to the value of a (of a and b): the argument is evaluated once
Strict1(F(_), a) == CHOOSE r \in {F(x) : x \in {a}} : TRUE
Strict2(F(_, _), a, b) == CHOOSE r \in {F(x, y) : x \in {a}, y \in {b}} : TRUE

RECURSIVE GCD(_, _)
GCD(a, b) ==
    LET f(x, y) == IF y = 0 THEN x ELSE GCD(y, x % y)
    IN  Strict2(f, a, b)

IAbs(n) == LET f(x) == IF x < 0 THEN -x ELSE x IN Strict1(f, n)

Norm(n, d) ==
    LET f(x, g) == <<x[1] \div g, x[2] \div g>>
    IN  Strict2(f, <<n, d>>, GCD(IAbs(n), d))

Rat(n, d) == Norm(n, d)
R(n) == <<n, 1>>
Zero == <<0, 1>>
One == <<1, 1>>
Inf == <<1, 0>>
NaN == <<0, 0>>

Add(a, b) ==
    LET f(x, y) ==
            LET h(g) == Norm(x[1] * (y[2] \div g) + y[1] * (x[2] \div g),
                             (x[2] \div g) * y[2])
            IN  Strict1(h, GCD(x[2], y[2]))
    IN  Strict2(f, a, b)
Neg(a) == LET f(x) == <<-x[1], x[2]>> IN Strict1(f, a)
Sub(a, b) == Add(a, Neg(b))
Mul(a, b) ==
    LET f(x, y) ==
            LET h(g, k) == <<(x[1] \div g) * (y[1] \div k), (x[2] \div k) * (y[2] \div g)>>
            IN  Strict2(h, GCD(IAbs(x[1]), y[2]), GCD(IAbs(y[1]), x[2]))
    IN  Strict2(f, a, b)
Div(a, b) ==
    LET f(x, y) == IF y[1] > 0 THEN Mul(x, <<y[2], y[1]>>) ELSE Mul(x, <<-y[2], -y[1]>>)
    IN  Strict2(f, a, b)
Lt(a, b) == \E x \in {a}, y \in {b} : x[1] * y[2] < y[1] * x[2]
Le(a, b) == \E x \in {a}, y \in {b} : x[1] * y[2] <= y[1] * x[2]
Gt(a, b) == Lt(b, a)
Ge(a, b) == Le(b, a)
FAbs(a) == LET f(x) == <<IAbs(x[1]), x[2]>> IN Strict1(f, a)
FMin(a, b) == LET f(x, y) == IF Lt(y, x) THEN y ELSE x IN Strict2(f, a, b)
FMax(a, b) == LET f(x, y) == IF Gt(y, x) THEN y ELSE x IN Strict2(f, a, b)
IMax(a, b) == LET f(x, y) == IF y > x THEN y ELSE x IN Strict2(f, a, b)

(***************************************************************************)
(* Values the random draws range over.  np.random.random() returns a       *)
(* uniform value in [0, 1); np.random.lognormal(log(avg), sigma) returns   *)
(* avg times a positive factor, of which the grid holds the median.        *)
(***************************************************************************)
UniformGrid == <<Rat(2, 5), Rat(3, 5), Rat(7, 10)>>
FactorGrid == <<One>>
UniformValues == {UniformGrid[k] : k \in DOMAIN UniformGrid}
FactorValues == {FactorGrid[k] : k \in DOMAIN FactorGrid}

(***************************************************************************)
(* TradeStats and SimulationConfig.                                        *)
(***************************************************************************)
\* the second distribution does not sum to 1
TierDistributions ==
    { [high |-> Rat(1, 2), medium |-> Rat(3, 20), low |-> Rat(7, 20)],
      [high |-> Rat(1, 2), medium |-> Rat(3, 20), low |-> Rat(1, 4)] }

TradeStats ==
    { [win_rate |-> Rat(543, 1000),
       avg_win |-> R(3),
       avg_loss |-> R(4),
       high_conf_pct |-> d.high,
       medium_conf_pct |-> d.medium,
       low_conf_pct |-> d.low] : d \in TierDistributions }

Costs ==
    { [slippage |-> Zero, commission |-> Zero],
      [slippage |-> Rat(1, 4), commission |-> Rat(1, 8)] }

SimulationConfig ==
    { [num_simulations |-> m,
       num_trades |-> n,
       initial_capital |-> c0,
       use_compounding |-> comp,
       high_conf_kelly |-> Rat(3, 4),
       medium_conf_kelly |-> Rat(1, 4),
       low_conf_kelly |-> Zero,
       max_position_pct |-> Rat(1, 2),
       max_total_exposure |-> Rat(3, 2),
       correlation_reduction |-> Rat(3, 10),
       slippage_pct |-> k.slippage,
       commission_pct |-> k.commission] :
         m \in 1..MaxSims, n \in 0..MaxTrades, c0 \in {R(2)},
         comp \in BOOLEAN, k \in Costs }

VARIABLES
    stats,      \* self.stats
    config,     \* self.config
    results,    \* self.results
    pc,         \* position of the caller / run_simulation
    sim_i,      \* loop variable i of run_simulation
    traj,       \* locals of the running _run_single_simulation call
    analysis,   \* value returned by analyze_results
    runlog,     \* the analyses the caller has collected from finished runs
    call,       \* the last direct call of a method: its arguments and outcome
    trades_remaining    \* the dict the owner of a TradingPlanGenerator passes
                        \* to generate_daily_plan

vars == <<stats, config, results, pc, sim_i, traj, analysis, runlog, call,
          trades_remaining>>


(***************************************************************************)
(* Sequence helpers (Python list operations, np.mean, np.std).             *)
(***************************************************************************)
RECURSIVE SumSeq(_)
SumSeq(s) ==
    LET f(x) == IF x = <<>> THEN Zero ELSE Add(Head(x), SumSeq(Tail(x)))
    IN  Strict1(f, s)

Last(s) == LET f(x) == x[Len(x)] IN Strict1(f, s)

Mean(s) ==
    LET f(x) == IF x = <<>> THEN NaN ELSE Div(SumSeq(x), R(Len(x)))
    IN  Strict1(f, s)

Square(a) == LET f(x) == Mul(x, x) IN Strict1(f, a)

\* np.std(s) squared: the population variance
Variance(s) ==
    LET f(x, mu) ==
            IF x = <<>> THEN NaN
            ELSE Div(SumSeq([k \in DOMAIN x |-> Square(Sub(x[k], mu))]), R(Len(x)))
    IN  Strict2(f, s, Mean(s))

Sign(a) == IF a[1] > 0 THEN 1 ELSE IF a[1] < 0 THEN -1 ELSE 0

(***************************************************************************)
(* ConfidenceSampler, OutcomeModel, PositionSizer.                         *)
(***************************************************************************)
_generate_confidence_level(rand) ==
    IF Lt(rand, stats.high_conf_pct) THEN "HIGH"
    ELSE IF Lt(rand, Add(stats.high_conf_pct, stats.medium_conf_pct)) THEN "MEDIUM"
    ELSE "LOW"

\* the win rate of the statistics, whatever the tier
_get_win_rate_by_confidence_FromStats(confidence) == stats.win_rate

_get_win_rate_by_confidence(confidence) ==
    IF confidence = "HIGH" THEN Rat(625, 1000)
    ELSE IF confidence = "MEDIUM" THEN Rat(500, 1000)
    ELSE Rat(450, 1000)

\* np.random.lognormal(mean = log(avg), sigma): avg times the drawn factor
lognormal(avg, factor) == Mul(avg, factor)

\* rand is the value of np.random.random(), factor the one of the lognormal draw
_simulate_single_trade(confidence, rand, factor) ==
    LET win_rate == _get_win_rate_by_confidence(confidence)
        costs(is_winner, pnl) ==
            LET slippage_cost == Mul(FAbs(pnl), config.slippage_pct)
                commission_cost == Mul(Mul(FAbs(pnl), config.commission_pct), R(2))
            IN  [pnl |-> Sub(Sub(pnl, slippage_cost), commission_cost),
                 is_winner |-> is_winner]
        sample(is_winner) ==
            Strict2(costs, is_winner,
                    IF is_winner THEN lognormal(stats.avg_win, factor)
                                 ELSE Neg(lognormal(stats.avg_loss, factor)))
    IN  Strict1(sample, Lt(rand, win_rate))

\* a confidence that is neither HIGH nor LOW takes the MEDIUM fraction
_calculate_position_size_DefaultMedium(capital, confidence, risk_pct) ==
    LET kelly_fraction ==
            IF confidence = "HIGH" THEN config.high_conf_kelly
            ELSE IF confidence = "LOW" THEN config.low_conf_kelly
            ELSE config.medium_conf_kelly
        position_size == Mul(Mul(capital, kelly_fraction), risk_pct)
        max_position == Mul(capital, config.max_position_pct)
    IN  FMin(position_size, max_position)

\* the position size without the maximum position constraint
_calculate_position_size_NoCap(capital, confidence, risk_pct) ==
    LET kelly_fraction ==
            IF confidence = "HIGH" THEN config.high_conf_kelly
            ELSE IF confidence = "MEDIUM" THEN config.medium_conf_kelly
            ELSE config.low_conf_kelly
    IN  Mul(Mul(capital, kelly_fraction), risk_pct)

_calculate_position_size(capital, confidence, risk_pct) ==
    LET kelly_fraction ==
            IF confidence = "HIGH" THEN config.high_conf_kelly
            ELSE IF confidence = "MEDIUM" THEN config.medium_conf_kelly
            ELSE config.low_conf_kelly
        position_size == Mul(Mul(capital, kelly_fraction), risk_pct)
        max_position == Mul(capital, config.max_position_pct)
    IN  FMin(position_size, max_position)

(***************************************************************************)
(* _run_single_simulation: the locals before the loop.                     *)
(***************************************************************************)
InitTrajectory ==
    [capital |-> config.initial_capital,
     equity_curve |-> <<config.initial_capital>>,
     peak_capital |-> config.initial_capital,
     max_drawdown |-> Zero,
     wins |-> 0,
     losses |-> 0,
     current_streak |-> 0,
     longest_win_streak |-> 0,
     longest_loss_streak |-> 0,
     last_trade_won |-> "None",
     gross_profit |-> Zero,
     gross_loss |-> Zero,
     returns |-> <<>>,
     trade_num |-> 0,          \* iterations of the trade loop entered so far
     outcomes |-> <<>>,        \* the values of is_winner of these iterations
     broke |-> FALSE,          \* the loop was left by break
     confidence |-> "None",
     position_size |-> Zero,
     pnl_per_unit |-> Zero,
     is_winner |-> FALSE,
     trade_pnl |-> Zero]

\* a change of outcome resets the streak to 0
NextStreak_ResetToZero(t, won) ==
    IF t.last_trade_won = won THEN t.current_streak + 1 ELSE 0

\* a streak that is never reset by a change of outcome
NextStreak_NoReset(t, won) == t.current_streak + 1

\* the active streak after a trade with outcome won ("True" or "False")
NextStreak(t, won) ==
    IF t.last_trade_won = won THEN t.current_streak + 1 ELSE 1

\* a trade of zero PnL is counted neither as a win nor as a loss
TrackMetrics_FlatNotCounted(traj0, is_winner, trade_pnl) ==
    LET f(t) ==
        IF trade_pnl = Zero THEN t
        ELSE IF is_winner
        THEN [t EXCEPT !.wins = @ + 1,
                       !.gross_profit = Add(@, FAbs(trade_pnl)),
                       !.current_streak = NextStreak(t, "True"),
                       !.longest_win_streak = IMax(@, NextStreak(t, "True")),
                       !.last_trade_won = "True"]
        ELSE [t EXCEPT !.losses = @ + 1,
                       !.gross_loss = Add(@, FAbs(trade_pnl)),
                       !.current_streak = NextStreak(t, "False"),
                       !.longest_loss_streak = IMax(@, NextStreak(t, "False")),
                       !.last_trade_won = "False"]
    IN  Strict1(f, traj0)

\* "Track metrics": win/loss counts, gross profit/loss and streaks
TrackMetrics(traj0, is_winner, trade_pnl) ==
    LET f(t) ==
        IF is_winner
        THEN [t EXCEPT !.wins = @ + 1,
                       !.gross_profit = Add(@, FAbs(trade_pnl)),
                       !.current_streak = NextStreak(t, "True"),
                       !.longest_win_streak = IMax(@, NextStreak(t, "True")),
                       !.last_trade_won = "True"]
        ELSE [t EXCEPT !.losses = @ + 1,
                       !.gross_loss = Add(@, FAbs(trade_pnl)),
                       !.current_streak = NextStreak(t, "False"),
                       !.longest_loss_streak = IMax(@, NextStreak(t, "False")),
                       !.last_trade_won = "False"]
    IN  Strict1(f, traj0)

\* max_drawdown holds the drawdown of the last trade, not the running maximum
TrackEquity_LastDrawdown(traj0) ==
    LET f(t) ==
        LET g(curve, peak) ==
                [t EXCEPT !.equity_curve = curve,
                          !.peak_capital = peak,
                          !.max_drawdown = Sub(peak, t.capital),
                          !.returns =
                              IF Len(curve) > 1
                              THEN Append(@, Div(Sub(curve[Len(curve)], curve[Len(curve) - 1]),
                                                 curve[Len(curve) - 1]))
                              ELSE @]
        IN  Strict2(g, Append(t.equity_curve, t.capital),
                    IF Gt(t.capital, t.peak_capital) THEN t.capital ELSE t.peak_capital)
    IN  Strict1(f, traj0)

\* "Update equity curve", "Track drawdown", "Calculate return for this trade"
TrackEquity(traj0) ==
    LET f(t) ==
        LET g(curve, peak) ==
                [t EXCEPT !.equity_curve = curve,
                          !.peak_capital = peak,
                          !.max_drawdown = FMax(@, Sub(peak, t.capital)),
                          !.returns =
                              IF Len(curve) > 1
                              THEN Append(@, Div(Sub(curve[Len(curve)], curve[Len(curve) - 1]),
                                                 curve[Len(curve) - 1]))
                              ELSE @]
        IN  Strict2(g, Append(t.equity_curve, t.capital),
                    IF Gt(t.capital, t.peak_capital) THEN t.capital ELSE t.peak_capital)
    IN  Strict1(f, traj0)

\* a trajectory that only stops when its capital is below 0
StopIfWipedOut_OnlyBelowZero(traj0) ==
    LET f(t) ==
        IF Lt(t.capital, Zero)
        THEN [t EXCEPT !.capital = Zero,
                       !.equity_curve = Append(@, Zero),
                       !.broke = TRUE]
        ELSE t
    IN  Strict1(f, traj0)

\* a wiped-out trajectory that keeps its negative capital
StopIfWipedOut_NoClamp(traj0) ==
    LET f(t) ==
        IF Le(t.capital, Zero)
        THEN [t EXCEPT !.equity_curve = Append(@, Zero),
                       !.broke = TRUE]
        ELSE t
    IN  Strict1(f, traj0)

\* "Stop if wiped out"
StopIfWipedOut(traj0) ==
    LET f(t) ==
        IF Le(t.capital, Zero)
        THEN [t EXCEPT !.capital = Zero,
                       !.equity_curve = Append(@, Zero),
                       !.broke = TRUE]
        ELSE t
    IN  Strict1(f, traj0)

\* a sizing base that ignores use_compounding
SizingBase_AlwaysCurrent(t) == t.capital

\* "Calculate position size": the capital the position is sized from
SizingBase(t) ==
    IF config.use_compounding THEN t.capital ELSE config.initial_capital

\* One iteration of the trade loop, given the three values drawn in it
TradeStep(t, rand_conf, rand_win, factor) ==
    LET sized(confidence) ==
            _calculate_position_size(SizingBase(t), confidence, One)
        booked(confidence, position_size, trade, trade_pnl) ==
            StopIfWipedOut(TrackEquity(TrackMetrics(
                [t EXCEPT !.trade_num = @ + 1,
                          !.outcomes = Append(@, trade.is_winner),
                          !.confidence = confidence,
                          !.position_size = position_size,
                          !.pnl_per_unit = trade.pnl,
                          !.is_winner = trade.is_winner,
                          !.trade_pnl = trade_pnl,
                          !.capital = Add(@, trade_pnl)],
                trade.is_winner, trade_pnl)))
        scaled(confidence) ==
            LET g(position_size, trade) ==
                    LET h(trade_pnl) == booked(confidence, position_size, trade, trade_pnl)
                    IN  Strict1(h, Mul(trade.pnl,
                                       Div(position_size, config.initial_capital)))
            IN  Strict2(g, sized(confidence),
                        _simulate_single_trade(confidence, rand_win, factor))
    IN  Strict1(scaled, _generate_confidence_level(rand_conf))

(***************************************************************************)
(* _run_single_simulation: the final metrics and the result record.        *)
(***************************************************************************)
TradesPerYear == 365

\* a ratio that is only defined as 0 when there is no return at all: the
\* division by a standard deviation of 0 gives an infinite ratio
SharpeRatio_NoStdGuard(returns) ==
    LET f(mean, variance) ==
        IF Len(returns) > 0
        THEN [sign |-> Sign(mean),
              square |-> IF variance = Zero THEN Inf
                         ELSE Div(Square(mean), variance),
              annualization |-> TradesPerYear]
        ELSE [sign |-> 0, square |-> Zero, annualization |-> TradesPerYear]
    IN  Strict2(f, Mean(returns), Variance(returns))

\* mean / std * sqrt(365), carried as the sign of the mean, mean^2 / std^2 and
\* the annualization constant under the square root
SharpeRatio(returns) ==
    LET f(mean, variance) ==
        IF Len(returns) > 0 /\ Gt(variance, Zero)
        THEN [sign |-> Sign(mean),
              square |-> Div(Square(mean), variance),
              annualization |-> TradesPerYear]
        ELSE [sign |-> 0, square |-> Zero, annualization |-> TradesPerYear]
    IN  Strict2(f, Mean(returns), Variance(returns))

\* a profit factor that is also infinite when there is no profit
ProfitFactor_InfWithoutProfit(gross_profit, gross_loss) ==
    IF Gt(gross_loss, Zero) /\ Gt(gross_profit, Zero)
    THEN Div(gross_profit, gross_loss)
    ELSE Inf

ProfitFactor(gross_profit, gross_loss) ==
    IF Gt(gross_loss, Zero) THEN Div(gross_profit, gross_loss) ELSE Inf

RECURSIVE DrawdownCurve(_, _)
\* the drawdown percentages of the entries of curve, peak being the running peak
DrawdownCurve(curve, peak) ==
    LET f(c, pk) ==
        IF c = <<>> THEN <<>>
        ELSE LET equity == Head(c)
                 p == IF Gt(equity, pk) THEN equity ELSE pk
                 dd == IF Gt(p, Zero) THEN Mul(Div(Sub(p, equity), p), R(100)) ELSE Zero
             IN  <<dd>> \o DrawdownCurve(Tail(c), p)
    IN  Strict2(f, curve, peak)

SimulationResult(t) ==
    [final_capital |-> t.capital,
     total_pnl |-> Sub(t.capital, config.initial_capital),
     max_drawdown |-> t.max_drawdown,
     max_drawdown_pct |-> IF Gt(t.peak_capital, Zero)
                          THEN Mul(Div(t.max_drawdown, t.peak_capital), R(100))
                          ELSE R(100),
     longest_win_streak |-> t.longest_win_streak,
     longest_loss_streak |-> t.longest_loss_streak,
     total_wins |-> t.wins,
     total_losses |-> t.losses,
     actual_win_rate |-> IF t.wins + t.losses > 0
                         THEN Rat(t.wins, t.wins + t.losses)
                         ELSE Zero,
     sharpe_ratio |-> SharpeRatio(t.returns),
     profit_factor |-> ProfitFactor(t.gross_profit, t.gross_loss),
     equity_curve |-> t.equity_curve,
     drawdown_curve |-> DrawdownCurve(t.equity_curve, t.equity_curve[1])]


(***************************************************************************)
(* analyze_results.                                                        *)
(***************************************************************************)
RECURSIVE Insert(_, _)
Insert(x, s) ==
    LET f(e, t) ==
        IF t = <<>> THEN <<e>>
        ELSE IF Le(e, Head(t)) THEN <<e>> \o t
        ELSE <<Head(t)>> \o Insert(e, Tail(t))
    IN  Strict2(f, x, s)

RECURSIVE Sorted(_)
Sorted(s) ==
    LET f(t) == IF t = <<>> THEN <<>> ELSE Insert(Head(t), Sorted(Tail(t)))
    IN  Strict1(f, s)

\* np.percentile of the sorted values a at rank p: linear interpolation
\* between the closest ranks
PercentileOfSorted(a, p) ==
    IF a = <<>> THEN NaN
    ELSE LET g(index) ==
                 LET lo == index[1] \div index[2]
                 IN  IF lo + 1 >= Len(a) THEN a[Len(a)]
                     ELSE Add(a[lo + 1],
                              Mul(Sub(index, R(lo)), Sub(a[lo + 2], a[lo + 1])))
         IN  Strict1(g, Mul(R(Len(a) - 1), Rat(p, 100)))

Percentile(s, p) ==
    LET f(a) == PercentileOfSorted(a, p)
    IN  Strict1(f, Sorted(s))

\* np.median(s)
Median(s) ==
    LET f(a) ==
        IF a = <<>> THEN NaN
        ELSE LET n == Len(a)
             IN  IF n % 2 = 1 THEN a[(n + 1) \div 2]
                 ELSE Div(Add(a[n \div 2], a[n \div 2 + 1]), R(2))
    IN  Strict1(f, Sorted(s))

percentiles == {1, 5, 10, 25, 50, 75, 90, 95, 99}

\* the percentiles read from the values in the order of the trajectories
PercentileTable_Unsorted(s) ==
    [p \in percentiles |-> PercentileOfSorted(s, p)]

PercentileTable(s) ==
    LET f(a) == [p \in percentiles |-> PercentileOfSorted(a, p)]
    IN  Strict1(f, Sorted(s))

\* an infinite profit factor is counted as 0 instead of being left out
SelectFinite_ZeroForInf(s) ==
    [k \in DOMAIN s |-> IF s[k] # Inf THEN s[k] ELSE Zero]

RECURSIVE SelectFinite(_)
\* the profit factors that are not float('inf')
SelectFinite(s) ==
    LET f(t) ==
        IF t = <<>> THEN <<>>
        ELSE IF Head(t) # Inf THEN <<Head(t)>> \o SelectFinite(Tail(t))
        ELSE SelectFinite(Tail(t))
    IN  Strict1(f, s)

Count(s, P(_)) == Cardinality({k \in DOMAIN s : P(s[k])})

\* the share of profitable trajectories as a fraction of 1
probability_of_profit_Fraction(total_pnls) ==
    LET Positive(pnl) == Gt(pnl, Zero)
    IN  Rat(Count(total_pnls, Positive), Len(total_pnls))

probability_of_profit(total_pnls) ==
    LET Positive(pnl) == Gt(pnl, Zero)
    IN  Mul(Rat(Count(total_pnls, Positive), Len(total_pnls)), R(100))

\* a trajectory that ends at exactly half of the initial capital is ruined
probability_of_ruin_AtOrBelowHalf(final_capitals) ==
    LET BelowHalf(cap) == Le(cap, Mul(config.initial_capital, Rat(1, 2)))
    IN  Mul(Rat(Count(final_capitals, BelowHalf), Len(final_capitals)), R(100))

probability_of_ruin(final_capitals) ==
    LET BelowHalf(cap) == Lt(cap, Mul(config.initial_capital, Rat(1, 2)))
    IN  Mul(Rat(Count(final_capitals, BelowHalf), Len(final_capitals)), R(100))

analyze_results ==
    LET final_capitals == [k \in DOMAIN results |-> results[k].final_capital]
        total_pnls == [k \in DOMAIN results |-> results[k].total_pnl]
        max_drawdowns == [k \in DOMAIN results |-> results[k].max_drawdown_pct]
        win_rates == [k \in DOMAIN results |-> results[k].actual_win_rate]
        sharpe_ratios == [k \in DOMAIN results |-> results[k].sharpe_ratio]
        profit_factors ==
            SelectFinite([k \in DOMAIN results |-> results[k].profit_factor])
        longest_loss_streaks ==
            [k \in DOMAIN results |-> R(results[k].longest_loss_streak)]
        Stats(s) == [mean |-> Mean(s),
                     median |-> Median(s),
                     variance |-> Variance(s),
                     min |-> Sorted(s)[1],
                     max |-> Last(Sorted(s)),
                     percentiles |-> PercentileTable(s)]
        Full(s) == Strict1(Stats, s)
    IN  [final_capital |-> Full(final_capitals),
         total_pnl |-> Full(total_pnls),
         max_drawdown_pct |-> Full(max_drawdowns),
         win_rate |-> [mean |-> Mean(win_rates),
                       median |-> Median(win_rates),
                       variance |-> Variance(win_rates)],
         \* the mean and median of the Sharpe ratios are irrational in general;
         \* the analysis carries the ratios they are computed from
         sharpe_ratio |-> sharpe_ratios,
         profit_factor |-> [mean |-> Mean(profit_factors),
                            median |-> Median(profit_factors)],
         longest_loss_streak |-> [mean |-> Mean(longest_loss_streaks),
                                  median |-> Median(longest_loss_streaks),
                                  max |-> Last(Sorted(longest_loss_streaks)),
                                  percentiles |-> PercentileTable(longest_loss_streaks)],
         probability_of_profit |-> probability_of_profit(total_pnls),
         probability_of_ruin |-> probability_of_ruin(final_capitals)]

(***************************************************************************)
(* The simulator object after construction.                                *)
(***************************************************************************)
Init ==
    /\ stats \in TradeStats
    /\ config \in SimulationConfig
    /\ config.num_simulations * config.num_trades <= MaxTotalTrades
    /\ stats.low_conf_pct = Rat(1, 4) => config.num_simulations = 1
    /\ results = <<>>
    /\ pc = "idle"
    /\ sim_i = 0
    /\ traj = InitTrajectory
    /\ analysis = <<>>
    /\ runlog = <<>>
    /\ call = <<>>
    /\ trades_remaining = <<>>

\* the configuration preconditions of the specification
ValidConfig ==
    /\ Gt(config.initial_capital, Zero)
    /\ Le(FAbs(Sub(Add(Add(stats.high_conf_pct, stats.medium_conf_pct),
                       stats.low_conf_pct), One)),
          Rat(1, 1000000))
    /\ Gt(stats.avg_win, Zero)
    /\ Gt(stats.avg_loss, Zero)

(***************************************************************************)
(* run_simulation, one action per position in its loops.                   *)
(***************************************************************************)
\* a call that overrides stats.win_rate before it simulates
run_simulation_OverridesWinRate ==
    /\ pc \in {"idle", "done"}
    /\ results' = <<>>
    /\ sim_i' = 0
    /\ analysis' = <<>>
    /\ pc' = "batch"
    /\ stats' = [stats EXCEPT !.win_rate = Rat(1, 2)]
    /\ UNCHANGED <<config, traj>>

\* a call that keeps the results of the earlier runs
run_simulation_KeepsResults ==
    /\ pc \in {"idle", "done"}
    /\ results' = results
    /\ sim_i' = 0
    /\ analysis' = <<>>
    /\ pc' = "batch"
    /\ UNCHANGED <<stats, config, traj>>

\* the call: self.results = []
run_simulation ==
    /\ pc \in {"idle", "done"}
    /\ results' = <<>>
    /\ sim_i' = 0
    /\ analysis' = <<>>
    /\ pc' = "batch"
    /\ UNCHANGED <<stats, config, traj>>

\* for i in range(num_simulations): enter _run_single_simulation
BeginTrajectory ==
    /\ pc = "batch"
    /\ sim_i < config.num_simulations
    /\ traj' = InitTrajectory
    /\ pc' = "trades"
    /\ UNCHANGED <<stats, config, results, sim_i, analysis, runlog, call, trades_remaining>>

\* one iteration of for trade_num in range(num_trades)
Trade(rand_conf, rand_win, factor) ==
    /\ pc = "trades"
    /\ ~traj.broke
    /\ traj.trade_num < config.num_trades
    /\ traj' = TradeStep(traj, rand_conf, rand_win, factor)
    /\ UNCHANGED <<stats, config, results, pc, sim_i, analysis, runlog, call, trades_remaining>>

\* a batch loop that ends with the first ruined trajectory
EndTrajectory_AbortOnRuin ==
    /\ pc = "trades"
    /\ traj.broke \/ traj.trade_num = config.num_trades
    /\ results' = Append(results, SimulationResult(traj))
    /\ sim_i' = IF traj.broke THEN config.num_simulations ELSE sim_i + 1
    /\ traj' = InitTrajectory
    /\ pc' = "batch"
    /\ UNCHANGED <<stats, config, analysis, runlog, call, trades_remaining>>

\* the loop is over: build the result, return, self.results.append(result)
EndTrajectory ==
    /\ pc = "trades"
    /\ traj.broke \/ traj.trade_num = config.num_trades
    /\ results' = Append(results, SimulationResult(traj))
    /\ sim_i' = sim_i + 1
    /\ traj' = InitTrajectory
    /\ pc' = "batch"
    /\ UNCHANGED <<stats, config, analysis, runlog, call, trades_remaining>>

\* an analysis that is returned as soon as one result is there
ReturnAnalysis_Early ==
    /\ pc = "batch"
    /\ sim_i >= 1
    /\ analysis' = <<analyze_results>>
    /\ pc' = "done"
    /\ UNCHANGED <<stats, config, results, sim_i, traj, call>>

\* return self.analyze_results(verbose)
ReturnAnalysis ==
    /\ pc = "batch"
    /\ sim_i = config.num_simulations
    /\ analysis' = <<analyze_results>>
    /\ pc' = "done"
    /\ UNCHANGED <<stats, config, results, sim_i, traj, call>>

(***************************************************************************)
(* Spec: one simulator; every draw of the global generator np.random is   *)
(* an arbitrary value of the grids.                                        *)
(***************************************************************************)
RunSimulation == run_simulation /\ UNCHANGED <<runlog, call, trades_remaining>>

Draw ==
    \E rand_conf \in UniformValues, rand_win \in UniformValues,
       factor \in FactorValues : Trade(rand_conf, rand_win, factor)

Analyze == ReturnAnalysis /\ UNCHANGED <<runlog, trades_remaining>>

Next ==
    \/ RunSimulation
    \/ BeginTrajectory
    \/ Draw
    \/ EndTrajectory
    \/ Analyze

Spec == Init /\ [][Next]_vars

\* run_simulation is sequential code: once called, each of its steps is taken
Running == BeginTrajectory \/ Draw \/ EndTrajectory \/ Analyze

FairSpec == Spec /\ WF_vars(Running)

(***************************************************************************)
(* SpecLog: the caller runs the same simulator MaxRuns times in one        *)
(* process and keeps the analysis each run_simulation call returns.        *)
(***************************************************************************)
LoggedRun ==
    /\ Len(runlog) < MaxRuns
    /\ run_simulation
    /\ UNCHANGED <<runlog, call, trades_remaining>>

LoggedAnalyze ==
    /\ ReturnAnalysis
    /\ runlog' = Append(runlog, analysis'[1])
    /\ UNCHANGED trades_remaining

NextLog ==
    \/ LoggedRun
    \/ BeginTrajectory
    \/ Draw
    \/ EndTrajectory
    \/ LoggedAnalyze

SpecLog == Init /\ [][NextLog]_vars

(***************************************************************************)
(* SpecCalls: the owner of the simulator also calls analyze_results and    *)
(* export_results directly, in any order, between runs.                    *)
(***************************************************************************)
CallRun ==
    /\ run_simulation
    /\ call' = [op |-> "run_simulation", raised |-> FALSE]
    /\ UNCHANGED <<runlog, trades_remaining>>

\* np.min of an empty list raises ValueError
AnalysisOutcome ==
    IF results = <<>>
    THEN [raised |-> TRUE]
    ELSE [raised |-> FALSE, ret |-> analyze_results]

CallAnalyze ==
    /\ pc \in {"idle", "done"}
    /\ call' = [op |-> "analyze_results"] @@ AnalysisOutcome
    /\ UNCHANGED <<stats, config, results, pc, sim_i, traj, analysis, runlog, trades_remaining>>

\* the indices 0, len // 4, len // 2, 3 * len // 4 and -1 of self.results
SampleIndices ==
    LET n == Len(results)
    IN  <<0, n \div 4, n \div 2, (3 * n) \div 4, -1>>

\* the content written to the file
export_data ==
    [config |-> config,
     stats |-> stats,
     analysis |-> analyze_results,
     sample_equity_curves |->
         [k \in DOMAIN SampleIndices |->
             LET i == SampleIndices[k]
                 r == results[IF i < 0 THEN Len(results) + 1 + i ELSE i + 1]
             IN  [simulation |-> i,
                  equity_curve |-> r.equity_curve,
                  drawdown_curve |-> r.drawdown_curve,
                  final_capital |-> r.final_capital]]]

CallExport ==
    /\ pc \in {"idle", "done"}
    /\ call' = IF AnalysisOutcome.raised
               THEN [op |-> "export_results", raised |-> TRUE]
               ELSE [op |-> "export_results", raised |-> FALSE, file |-> export_data]
    /\ UNCHANGED <<stats, config, results, pc, sim_i, traj, analysis, runlog, trades_remaining>>

NextCalls ==
    \/ CallRun
    \/ BeginTrajectory
    \/ Draw
    \/ EndTrajectory
    \/ Analyze
    \/ CallAnalyze
    \/ CallExport

\* simulators of one-trade trajectories
InitCalls == Init /\ config.num_trades = 1

SpecCalls == InitCalls /\ [][NextCalls]_vars

(***************************************************************************)
(* SpecSize: _calculate_position_size is also called directly, with any    *)
(* capital, confidence and risk_pct of the sets below.                     *)
(***************************************************************************)
ConfidenceValues == {"HIGH", "MEDIUM", "LOW", "UNKNOWN"}
CapitalValues == {Zero, One, R(2), Rat(7, 2)}
RiskValues == {Rat(1, 2), One, R(3)}

CallPositionSize(capital, confidence, risk_pct) ==
    /\ pc = "idle"
    /\ call' = [op |-> "_calculate_position_size",
                raised |-> FALSE,
                capital |-> capital,
                confidence |-> confidence,
                risk_pct |-> risk_pct,
                ret |-> _calculate_position_size(capital, confidence, risk_pct)]
    /\ UNCHANGED <<stats, config, results, pc, sim_i, traj, analysis, runlog, trades_remaining>>

SizePosition ==
    \E capital \in CapitalValues, confidence \in ConfidenceValues,
       risk_pct \in RiskValues : CallPositionSize(capital, confidence, risk_pct)

NextSize ==
    \/ SizePosition
    \/ CallRun
    \/ BeginTrajectory
    \/ Draw
    \/ EndTrajectory
    \/ Analyze

SpecSize == Init /\ [][NextSize]_vars

(***************************************************************************)
(* SpecRerun: the owner runs one simulator up to MaxRuns times, counts the *)
(* runs, and calls analyze_results and export_results between the runs;    *)
(* analysis holds what the latest run returned.                            *)
(***************************************************************************)
RunsSoFar == IF runlog = <<>> THEN 0 ELSE runlog[1].run

RerunSimulation ==
    /\ RunsSoFar < MaxRuns
    /\ run_simulation
    /\ call' = [op |-> "run_simulation", raised |-> FALSE]
    /\ runlog' = <<[run |-> RunsSoFar + 1]>>
    /\ UNCHANGED trades_remaining

NextRerun ==
    \/ RerunSimulation
    \/ BeginTrajectory
    \/ Draw
    \/ EndTrajectory
    \/ Analyze
    \/ CallAnalyze
    \/ CallExport

\* compounding simulators of one-trade trajectories whose tier probabilities
\* sum to 1
InitRerun ==
    /\ InitCalls
    /\ Add(Add(stats.high_conf_pct, stats.medium_conf_pct), stats.low_conf_pct) = One
    /\ config.use_compounding

SpecRerun == InitRerun /\ [][NextRerun]_vars

(***************************************************************************)
(* SpecPair: two simulators that differ in one input the simulation does   *)
(* not read, each run once; the second is fed the draws of the first.      *)
(* call.draws holds the draws of the running simulator, runlog one record  *)
(* per finished simulator.                                                 *)
(***************************************************************************)
PairRun ==
    /\ pc = "idle"
    /\ run_simulation
    /\ call' = [op |-> "run_simulation", raised |-> FALSE, draws |-> <<>>]
    /\ UNCHANGED <<runlog, trades_remaining>>

\* the draws the generator delivers next: those of the first simulator, in
\* order, for the second one
NextDraws ==
    LET all == [rand_conf : UniformValues, rand_win : UniformValues,
                factor : FactorValues]
        k == Len(call.draws) + 1
    IN  IF runlog # <<>> /\ k <= Len(runlog[1].draws)
        THEN {runlog[1].draws[k]}
        ELSE all

PairTrade ==
    /\ pc = "trades"
    /\ ~traj.broke
    /\ traj.trade_num < config.num_trades
    /\ \E d \in NextDraws :
        /\ traj' = TradeStep(traj, d.rand_conf, d.rand_win, d.factor)
        /\ call' = [call EXCEPT !.draws = Append(@, d)]
        /\ UNCHANGED <<stats, config, results, pc, sim_i, analysis, runlog, trades_remaining>>

PairAnalyze ==
    /\ ReturnAnalysis
    /\ runlog' = Append(runlog, [stats |-> stats,
                                 config |-> config,
                                 draws |-> call.draws,
                                 results |-> results,
                                 analysis |-> analysis'[1]])
    /\ UNCHANGED trades_remaining

\* the statistics and configurations that differ from the given ones in
\* exactly one of win_rate, max_total_exposure and correlation_reduction
UnusedInputs ==
    { [stats |-> [stats EXCEPT !.win_rate = Rat(13, 20)], config |-> config],
      [stats |-> stats, config |-> [config EXCEPT !.max_total_exposure = R(2)]],
      [stats |-> stats, config |-> [config EXCEPT !.correlation_reduction = Rat(1, 2)]] }

\* MonteCarloSimulator(stats, config) for the second simulator
SecondSimulator ==
    /\ pc = "done"
    /\ Len(runlog) = 1
    /\ \E u \in UnusedInputs : stats' = u.stats /\ config' = u.config
    /\ results' = <<>>
    /\ pc' = "idle"
    /\ sim_i' = 0
    /\ traj' = InitTrajectory
    /\ analysis' = <<>>
    /\ call' = <<>>
    /\ UNCHANGED <<runlog, trades_remaining>>

NextPair ==
    \/ PairRun
    \/ BeginTrajectory
    \/ PairTrade
    \/ EndTrajectory
    \/ PairAnalyze
    \/ SecondSimulator

\* one trajectory per simulator, tier probabilities that sum to 1
InitPair ==
    /\ Init
    /\ Add(Add(stats.high_conf_pct, stats.medium_conf_pct), stats.low_conf_pct) = One
    /\ config.num_simulations = 1

SpecPair == InitPair /\ [][NextPair]_vars

(***************************************************************************)
(* SpecLeverage: PositionSizingCalculator (position_sizing_calculator.py). *)
(* call holds the calculator a call is made on (self), the arguments and   *)
(* the returned dict.                                                      *)
(***************************************************************************)
\* PortfolioConfig(): the defaults of the dataclass
DefaultPortfolioConfig ==
    [total_capital |-> R(1000),
     high_conf_kelly |-> Rat(146, 1000),
     medium_conf_kelly |-> Rat(110, 1000),
     low_conf_kelly |-> Rat(55, 1000),
     high_conf_pct |-> Rat(67, 100),
     medium_conf_pct |-> Rat(31, 100),
     low_conf_pct |-> Rat(2, 100),
     max_position_pct |-> Rat(20, 100),
     max_total_exposure_pct |-> Rat(150, 100),
     correlation_reduction_pct |-> Rat(30, 100),
     margin_requirement_pct |-> Rat(5, 100),
     stop_loss_pct |-> Rat(2, 100)]

\* the defaults, a HIGH fraction above the position cap, and a margin
\* requirement that exceeds the capital
PortfolioConfig ==
    { DefaultPortfolioConfig,
      [DefaultPortfolioConfig EXCEPT !.high_conf_kelly = Rat(1, 4)],
      [DefaultPortfolioConfig EXCEPT !.margin_requirement_pct = R(8)] }

\* a base size without the maximum position constraint
calculate_base_position_size_NoCap(self, confidence) ==
    LET kelly_fraction ==
            CASE confidence = "HIGH" -> self.config.high_conf_kelly
              [] confidence = "MEDIUM" -> self.config.medium_conf_kelly
              [] confidence = "LOW" -> self.config.low_conf_kelly
              [] OTHER -> self.config.low_conf_kelly
    IN  Mul(self.config.total_capital, kelly_fraction)

calculate_base_position_size(self, confidence) ==
    LET kelly_fraction ==
            CASE confidence = "HIGH" -> self.config.high_conf_kelly
              [] confidence = "MEDIUM" -> self.config.medium_conf_kelly
              [] confidence = "LOW" -> self.config.low_conf_kelly
              [] OTHER -> self.config.low_conf_kelly
        base_size == Mul(self.config.total_capital, kelly_fraction)
        max_position == Mul(self.config.total_capital, self.config.max_position_pct)
    IN  FMin(base_size, max_position)

calculate_margin_requirement(self, position_size, leverage) ==
    Div(Mul(position_size, self.config.margin_requirement_pct), leverage)

calculate_position_with_leverage(self, confidence, leverage, current_exposure, is_correlated) ==
    LET base_size == calculate_base_position_size(self, confidence)
        adjusted_size ==
            IF is_correlated
            THEN Mul(base_size, Sub(One, self.config.correlation_reduction_pct))
            ELSE base_size
        max_allowed_exposure ==
            Mul(self.config.total_capital, self.config.max_total_exposure_pct)
        remaining_exposure == Sub(max_allowed_exposure, current_exposure)
        final_position_size == FMin(adjusted_size, remaining_exposure)
        margin_required ==
            calculate_margin_requirement(self, final_position_size, leverage)
        stop_loss_distance == self.config.stop_loss_pct
        risk_amount == Mul(final_position_size, stop_loss_distance)
    IN  IF Le(remaining_exposure, Zero)
        THEN [allowed |-> FALSE,
              reason |-> "Maximum total exposure reached",
              position_size |-> Zero,
              margin_required |-> Zero,
              leverage |-> leverage]
        ELSE IF Gt(margin_required, self.config.total_capital)
        THEN [allowed |-> FALSE,
              reason |-> "Insufficient capital for margin requirement",
              position_size |-> final_position_size,
              margin_required |-> margin_required,
              leverage |-> leverage]
        ELSE [allowed |-> TRUE,
              confidence |-> confidence,
              base_kelly_size |-> base_size,
              position_size |-> final_position_size,
              margin_required |-> margin_required,
              leverage |-> leverage,
              stop_loss_pct |-> Mul(stop_loss_distance, R(100)),
              risk_amount |-> risk_amount,
              risk_pct_of_capital |->
                  Mul(Div(risk_amount, self.config.total_capital), R(100)),
              correlation_adjusted |-> is_correlated]

LeverageValues == {One, R(5), R(20)}
ExposureValues == {Zero, R(700), R(1400), R(1450), R(1500), R(1600)}

CallPositionWithLeverage(self, confidence, leverage, current_exposure, is_correlated) ==
    /\ pc = "idle"
    /\ call' = [op |-> "calculate_position_with_leverage",
                raised |-> FALSE,
                self |-> self,
                confidence |-> confidence,
                leverage |-> leverage,
                current_exposure |-> current_exposure,
                is_correlated |-> is_correlated,
                ret |-> calculate_position_with_leverage(
                            self, confidence, leverage, current_exposure, is_correlated)]
    /\ UNCHANGED <<stats, config, results, pc, sim_i, traj, analysis, runlog, trades_remaining>>

SizeWithLeverage ==
    \E c \in PortfolioConfig, confidence \in ConfidenceValues,
       leverage \in LeverageValues, current_exposure \in ExposureValues,
       is_correlated \in BOOLEAN :
        CallPositionWithLeverage([config |-> c], confidence, leverage,
                                 current_exposure, is_correlated)

NextLeverage == SizeWithLeverage

\* no simulator is involved: one idle simulator without trades stands for it
InitLeverage ==
    /\ Init
    /\ Add(Add(stats.high_conf_pct, stats.medium_conf_pct), stats.low_conf_pct) = One
    /\ config.num_simulations = 1
    /\ config.num_trades = 0
    /\ config.use_compounding
    /\ config.slippage_pct = Zero

SpecLeverage == InitLeverage /\ [][NextLeverage]_vars

(***************************************************************************)
(* SpecPlan: TradingPlanGenerator (generate_30day_plan.py).  The owner     *)
(* calls generate_trade_distribution once and passes the dict it returns,  *)
(* trades_remaining, to every generate_daily_plan call, which updates it   *)
(* in place.                                                               *)
(***************************************************************************)
strategies == <<"Q-Pulse", "Q-Trend", "Q-Mean-Rev">>

\* TradingPlanGenerator(): the attributes __init__ sets that the plan reads
TradingPlanGenerator ==
    [starting_capital |-> R(100),
     current_capital |-> R(100),
     strategy_dist |-> [s \in {"Q-Pulse", "Q-Trend", "Q-Mean-Rev"} |->
                          CASE s = "Q-Pulse" -> Rat(75, 100)
                            [] s = "Q-Trend" -> Rat(23, 100)
                            [] s = "Q-Mean-Rev" -> Rat(2, 100)],
     confidence_dist |-> [HIGH |-> Rat(68, 100), MEDIUM |-> Rat(32, 100)],
     kelly_fractions |-> [HIGH |-> Rat(146, 1000), MEDIUM |-> Rat(110, 1000)],
     aggression_multiplier |-> Rat(3, 2),
     max_leverage |-> [HIGH |-> R(10), MEDIUM |-> R(5)]]

\* int(x) of a float: truncation towards 0
int(x) == IF x[1] >= 0 THEN x[1] \div x[2] ELSE -((-x[1]) \div x[2])

calculate_position_size(self, confidence, strategy, current_capital) ==
    LET base_kelly == self.kelly_fractions[confidence]
        adjusted_kelly == Mul(base_kelly, self.aggression_multiplier)
        max_single_position == Mul(current_capital, Rat(1, 2))
        position_size == FMin(Mul(current_capital, adjusted_kelly), max_single_position)
        recommended_leverage == self.max_leverage[confidence]
        margin_required == Div(position_size, recommended_leverage)
        stop_loss_pct == Rat(2, 100)
        risk_amount == Mul(position_size, stop_loss_pct)
        risk_pct == Mul(Div(risk_amount, current_capital), R(100))
    IN  [confidence |-> confidence,
         strategy |-> strategy,
         position_size |-> position_size,
         recommended_leverage |-> recommended_leverage,
         margin_required |-> margin_required,
         stop_loss_pct |-> Mul(stop_loss_pct, R(100)),
         risk_amount |-> risk_amount,
         risk_pct_of_capital |-> risk_pct,
         kelly_fraction |-> Mul(adjusted_kelly, R(100))]

generate_trade_distribution(self, total_days, trades_per_day) ==
    LET total_trades == total_days * trades_per_day
        high_trades == int(Mul(R(total_trades), self.confidence_dist.HIGH))
        medium_trades == total_trades - high_trades
        tier(n) ==
            LET qpulse == int(Mul(R(n), self.strategy_dist["Q-Pulse"]))
                qtrend == int(Mul(R(n), self.strategy_dist["Q-Trend"]))
            IN  [k \in {"Q-Pulse", "Q-Trend", "Q-Mean-Rev", "Total"} |->
                    CASE k = "Q-Pulse" -> qpulse
                      [] k = "Q-Trend" -> qtrend
                      [] k = "Q-Mean-Rev" -> n - qpulse - qtrend
                      [] k = "Total" -> n]
    IN  [HIGH |-> tier(high_trades), MEDIUM |-> tier(medium_trades)]

\* a choice among all strategies, whatever is left of them
_pick_strategy_AnyStrategy(confidence, remaining) ==
    IF remaining[confidence]["Q-Pulse"] + remaining[confidence]["Q-Trend"]
           + remaining[confidence]["Q-Mean-Rev"] = 0
    THEN {"None"}
    ELSE {strategies[k] : k \in DOMAIN strategies}

\* the values _pick_strategy can return: None, or a strategy np.random.choice
\* draws with a probability > 0; a negative weight raises ValueError
_pick_strategy(confidence, remaining) ==
    LET left == [k \in DOMAIN strategies |-> remaining[confidence][strategies[k]]]
    IN  IF left[1] + left[2] + left[3] = 0 THEN {"None"}
        ELSE IF \E k \in DOMAIN left : left[k] < 0 THEN {"ValueError"}
        ELSE {strategies[k] : k \in {j \in DOMAIN left : left[j] > 0}}

\* the outcomes of n iterations of a loop of generate_daily_plan, started
\* with the plan o = [remaining, daily_trades, raised]
RECURSIVE TierLoop(_, _, _, _)
TierLoop(self, confidence, n, o) ==
    IF n = 0 \/ o.raised THEN {o}
    ELSE UNION { TierLoop(self, confidence, n - 1,
                     IF strategy = "ValueError" THEN [o EXCEPT !.raised = TRUE]
                     ELSE IF strategy = "None" THEN o
                     ELSE [o EXCEPT
                             !.daily_trades = Append(@,
                                 calculate_position_size(self, confidence, strategy,
                                                         self.current_capital)),
                             !.remaining[confidence][strategy] = @ - 1,
                             !.remaining[confidence]["Total"] = @ - 1]) :
                 strategy \in _pick_strategy(confidence, o.remaining) }

IMin(a, b) == IF a <= b THEN a ELSE b

\* choice is the value of np.random.choice([3, 4], p=[0.4, 0.6])
generate_daily_plan(self, remaining, choice) ==
    LET high_today == IMin(choice, remaining.HIGH["Total"])
        medium_today == IMin(5 - high_today, remaining.MEDIUM["Total"])
        high == TierLoop(self, "HIGH", high_today,
                         [remaining |-> remaining, daily_trades |-> <<>>,
                          raised |-> FALSE])
    IN  UNION { TierLoop(self, "MEDIUM", medium_today, o) : o \in high }

TradesPerDayValues == {4, 5}

CallTradeDistribution ==
    /\ pc = "idle"
    /\ trades_remaining = <<>>
    /\ \E total_days \in 1..MaxDays, trades_per_day \in TradesPerDayValues :
          LET ret == generate_trade_distribution(TradingPlanGenerator,
                                                 total_days, trades_per_day)
          IN  /\ trades_remaining' = ret
              /\ call' = [op |-> "generate_trade_distribution",
                          raised |-> FALSE,
                          total_days |-> total_days,
                          trades_per_day |-> trades_per_day,
                          ret |-> ret]
    /\ UNCHANGED <<stats, config, results, pc, sim_i, traj, analysis, runlog>>

CallDailyPlan ==
    /\ pc = "idle"
    /\ trades_remaining # <<>>
    /\ \E choice \in {3, 4} :
          \E o \in generate_daily_plan(TradingPlanGenerator, trades_remaining, choice) :
              /\ trades_remaining' = o.remaining
              /\ call' = IF o.raised
                         THEN [op |-> "generate_daily_plan", raised |-> TRUE]
                         ELSE [op |-> "generate_daily_plan", raised |-> FALSE,
                               ret |-> o.daily_trades]
    /\ UNCHANGED <<stats, config, results, pc, sim_i, traj, analysis, runlog>>

NextPlan ==
    \/ CallTradeDistribution
    \/ CallDailyPlan

\* TradingPlanGenerator(); no simulator is involved
InitPlan == InitLeverage

SpecPlan == InitPlan /\ [][NextPlan]_vars

(***************************************************************************)
(* SpecCosts: simulators whose slippage and round-trip commission take     *)
(* more than the whole magnitude of a trade, so that a trade flagged as a  *)
(* win has a negative PnL.                                                 *)
(***************************************************************************)
HeavyCosts == [slippage |-> Rat(3, 4), commission |-> Rat(1, 4)]

InitCosts ==
    /\ stats \in TradeStats
    /\ config \in { [c EXCEPT !.slippage_pct = HeavyCosts.slippage,
                              !.commission_pct = HeavyCosts.commission] :
                      c \in SimulationConfig }
    /\ config.num_simulations * config.num_trades <= MaxTotalTrades
    /\ stats.low_conf_pct = Rat(1, 4) => config.num_simulations = 1
    /\ results = <<>>
    /\ pc = "idle"
    /\ sim_i = 0
    /\ traj = InitTrajectory
    /\ analysis = <<>>
    /\ runlog = <<>>
    /\ call = <<>>
    /\ trades_remaining = <<>>

SpecCosts == InitCosts /\ [][Next]_vars

TypeOK ==
    /\ pc \in {"idle", "batch", "trades", "done"}
    /\ sim_i \in 0..config.num_simulations
    /\ Len(results) <= config.num_simulations


(***************************************************************************)
(* Properties.                                                             *)
(***************************************************************************)
\* the trade loop of the running trajectory is over, its result is about to be built
LoopOver == pc = "trades" /\ (traj.broke \/ traj.trade_num = config.num_trades)

\* the step in which _run_single_simulation returns and its result is appended
Returns == pc = "trades" /\ pc' = "batch"

\* C1: with initial_capital > 0, every entry of every returned equity_curve is
\* >= 0, the entry recorded for the ruining trade included.
C1_EquityNonNegative ==
    ValidConfig =>
        \A i \in DOMAIN results :
            \A k \in DOMAIN results[i].equity_curve :
                Ge(results[i].equity_curve[k], Zero)

\* C2: a 0 can only be the last entry of an equity curve (so it occurs at most
\* once), and when the first trade brings capital to exactly 0 the result has
\* equity_curve = [C0, 0] and final_capital = 0.
C2_ZeroOnlyLast ==
    ValidConfig =>
        \A i \in DOMAIN results :
            LET curve == results[i].equity_curve
            IN  /\ \A k \in DOMAIN curve : curve[k] = Zero => k = Len(curve)
                /\ (Len(curve) >= 2 /\ curve[2] = Zero) =>
                       /\ curve = <<config.initial_capital, Zero>>
                       /\ results[i].final_capital = Zero

\* C3: every returned equity curve has at most num_trades + 1 entries.
C3_CurveLength ==
    ValidConfig =>
        \A i \in DOMAIN results :
            Len(results[i].equity_curve) <= config.num_trades + 1

\* C4: total_wins + total_losses is the number of trades executed: N when the
\* trajectory completes, k <= N when ruin occurs on trade k; the ruining trade
\* is counted and no trade is executed after it.
C4_WinsPlusLosses ==
    /\ [](pc = "trades" =>
            /\ traj.wins + traj.losses = traj.trade_num
            /\ traj.trade_num <= config.num_trades)
    /\ [][Returns =>
            LET r == Last(results')
            IN  /\ r.total_wins + r.total_losses = traj.trade_num
                /\ ~traj.broke => traj.trade_num = config.num_trades]_vars
    /\ [][(pc = "trades" /\ traj.broke) => Returns]_vars

C4_Witness ==
    \E i \in DOMAIN results :
        /\ results[i].final_capital = Zero
        /\ results[i].total_wins + results[i].total_losses = 1
        /\ config.num_trades = 2

\* C5: after every trade and in every result, longest_win_streak +
\* longest_loss_streak is at most the number of trades simulated so far.
C5_StreaksBounded ==
    /\ pc = "trades" =>
          traj.longest_win_streak + traj.longest_loss_streak
              <= traj.wins + traj.losses
    /\ \A i \in DOMAIN results :
          results[i].longest_win_streak + results[i].longest_loss_streak
              <= results[i].total_wins + results[i].total_losses

C5_Witness ==
    \E i \in DOMAIN results :
        /\ results[i].longest_win_streak = 1
        /\ results[i].longest_loss_streak = 1
        /\ results[i].total_wins + results[i].total_losses = 2

\* C6: the returned profit_factor is +infinity exactly when the accumulated
\* gross_loss is 0, and gross_profit / gross_loss otherwise.
C6_ProfitFactor ==
    [][Returns =>
        LET r == Last(results')
        IN  /\ r.profit_factor = Inf <=> traj.gross_loss = Zero
            /\ traj.gross_loss # Zero =>
                   /\ r.profit_factor[2] > 0
                   /\ Mul(r.profit_factor, traj.gross_loss) = traj.gross_profit]_vars

\* a trajectory whose only losing trade has zero PnL, next to a winning trade
C6_Witness ==
    \E i \in DOMAIN results :
        /\ results[i].total_losses = 1
        /\ results[i].total_wins = 1
        /\ results[i].profit_factor = Inf

\* C7: ruin does not abort the batch: a started run_simulation finishes with
\* exactly num_simulations results, each appended at its trajectory's index
\* behind the earlier ones, and the analysis is computed from all of them.
C7_BatchCompletes ==
    /\ (pc = "batch") ~> (pc = "done" /\ Len(results) = config.num_simulations)
    /\ [](pc = "done" =>
            Len(results) = config.num_simulations /\ analysis # <<>>)
    /\ [][Returns =>
            /\ Len(results') = sim_i + 1
            /\ SubSeq(results', 1, sim_i) = results]_vars

C7_Witness ==
    /\ pc = "done"
    /\ Len(results) = 2
    /\ results[1].final_capital = Zero
    /\ Gt(results[2].final_capital, Zero)

\* C8: a malformed configuration is rejected before anything is simulated: no
\* trade is executed and no result or analysis is produced for it.
C8_MalformedRejected ==
    ~ValidConfig =>
        /\ results = <<>>
        /\ analysis = <<>>
        /\ traj.trade_num = 0

\* C9: determinism: two runs of run_simulation with the same seed, M, N and
\* config return identical analyses, whatever was drawn before or between them.
C9_Deterministic ==
    ValidConfig =>
        \A i \in DOMAIN runlog : \A j \in DOMAIN runlog : runlog[i] = runlog[j]

\* C10: in a one-trade trajectory with zero slippage and commission and a
\* winning draw of per-unit magnitude m, final_capital is
\* C0 + m * (position_size / C0) with
\* position_size = min(C0 * kelly_fraction[tier], C0 * max_position_pct).
C10_OneWinningTrade ==
    [][(/\ Returns
        /\ config.num_trades = 1
        /\ config.slippage_pct = Zero
        /\ config.commission_pct = Zero
        /\ traj.is_winner) =>
        LET C0 == config.initial_capital
            m == traj.pnl_per_unit
            kelly == CASE traj.confidence = "HIGH" -> config.high_conf_kelly
                       [] traj.confidence = "MEDIUM" -> config.medium_conf_kelly
                       [] traj.confidence = "LOW" -> config.low_conf_kelly
            a == Mul(C0, kelly)
            b == Mul(C0, config.max_position_pct)
            position_size == IF Le(a, b) THEN a ELSE b
        IN  /\ Gt(m, Zero)
            /\ Last(results').final_capital =
                   Add(C0, Mul(m, Div(position_size, C0)))]_vars

\* a one-trade trajectory won at HIGH confidence, where the position cap binds
C10_Witness ==
    /\ LoopOver
    /\ config.num_trades = 1
    /\ config.slippage_pct = Zero
    /\ config.commission_pct = Zero
    /\ traj.is_winner
    /\ traj.confidence = "HIGH"
    /\ Lt(config.max_position_pct, config.high_conf_kelly)

\* C11: when every trajectory of the finished batch has total_pnl > 0 (and
\* initial_capital > 0), the analysis reports probability_of_profit = 100 and
\* probability_of_ruin = 0.
C11_AllProfitable ==
    (/\ pc = "done"
     /\ Gt(config.initial_capital, Zero)
     /\ \A i \in DOMAIN results : Gt(results[i].total_pnl, Zero)) =>
        /\ analysis[1].probability_of_profit = R(100)
        /\ analysis[1].probability_of_ruin = Zero

C11_Witness ==
    /\ pc = "done"
    /\ Len(results) = 2
    /\ \A i \in DOMAIN results : Gt(results[i].total_pnl, Zero)
    /\ results[1].final_capital # results[2].final_capital

\* C12: the profit_factor mean and median are computed from the finite profit
\* factors only; when every trajectory has an infinite profit factor the
\* analysis is still returned, with profit_factor mean and median NaN and
\* every other field computed as usual.
C12_ProfitFactorFiltered ==
    pc = "done" =>
        LET pf == [k \in DOMAIN results |-> results[k].profit_factor]
            finite == {k \in DOMAIN pf : pf[k][2] # 0}
            a == analysis[1]
        IN  /\ finite = {} =>
                   /\ a.profit_factor.mean = NaN
                   /\ a.profit_factor.median = NaN
            /\ finite # {} =>
                   /\ Mul(a.profit_factor.mean, R(Cardinality(finite))) =
                          SumSeq([k \in DOMAIN pf |->
                                     IF k \in finite THEN pf[k] ELSE Zero])
                   /\ a.profit_factor.median[2] > 0
                   /\ \E k \in finite : Le(pf[k], a.profit_factor.median)
                   /\ \E k \in finite : Ge(pf[k], a.profit_factor.median)
            /\ a.final_capital.mean[2] > 0
            /\ a.total_pnl.mean[2] > 0
            /\ a.max_drawdown_pct.mean[2] > 0
            /\ a.win_rate.mean[2] > 0
            /\ a.longest_loss_streak.mean[2] > 0
            /\ a.probability_of_profit[2] > 0
            /\ a.probability_of_ruin[2] > 0

\* a finished batch of two trajectories without any loss
C12_Witness ==
    /\ pc = "done"
    /\ Len(results) = 2
    /\ \A i \in DOMAIN results : results[i].profit_factor = Inf
    /\ analysis[1].profit_factor.mean = NaN

\* C13: in every analysis the percentile values of final_capital, total_pnl,
\* max_drawdown_pct and longest_loss_streak are non-decreasing in the rank,
\* lie between the reported min and max, and the 50th equals the median.
C13_PercentilesMonotone ==
    pc = "done" =>
        LET a == analysis[1]
            Mono(t) == \A p \in percentiles : \A q \in percentiles :
                           p <= q => Le(t[p], t[q])
            Full(m) ==
                /\ Mono(m.percentiles)
                /\ \A p \in percentiles :
                       Le(m.min, m.percentiles[p]) /\ Le(m.percentiles[p], m.max)
                /\ m.percentiles[50] = m.median
        IN  /\ Full(a.final_capital)
            /\ Full(a.total_pnl)
            /\ Full(a.max_drawdown_pct)
            /\ Mono(a.longest_loss_streak.percentiles)
            /\ \A p \in percentiles :
                   Le(a.longest_loss_streak.percentiles[p], a.longest_loss_streak.max)
            /\ a.longest_loss_streak.percentiles[50] = a.longest_loss_streak.median

\* two trajectories whose final capitals are in descending order
C13_Witness ==
    /\ pc = "done"
    /\ Len(results) = 2
    /\ Gt(results[1].final_capital, results[2].final_capital)
    /\ Lt(analysis[1].final_capital.percentiles[1],
          analysis[1].final_capital.percentiles[99])

\* C14: an analysis is only ever computed when all num_simulations results
\* have been appended, and from exactly these results.
C14_AggregationBarrier ==
    [][(analysis' # analysis /\ analysis' # <<>>) =>
          /\ Len(results) = config.num_simulations
          /\ sim_i = config.num_simulations
          /\ results' = results]_vars

C14_Witness ==
    /\ pc = "done"
    /\ analysis # <<>>
    /\ Len(results) = 2
    /\ config.num_trades = 1

\* C15: no step of run_simulation, analyze_results or export_results changes
\* a field of stats or config, and every trajectory starts from the same
\* locals, whatever the trajectories and calls before it did.
C15_InputsReadOnly ==
    /\ [][stats' = stats /\ config' = config]_vars
    /\ []((pc = "trades" /\ traj.trade_num = 0) => traj = InitTrajectory)
    /\ []((call # <<>> /\ call.op = "export_results" /\ ~call.raised) =>
              /\ call.file.stats = stats
              /\ call.file.config = config)

\* an export of a finished batch of two trajectories
C15_Witness ==
    /\ pc = "done"
    /\ Len(results) = 2
    /\ call # <<>>
    /\ call.op = "export_results"
    /\ ~call.raised

\* a trade of the running trajectory is executed in this step
Trades == pc = "trades" /\ pc' = "trades" /\ traj'.trade_num = traj.trade_num + 1

\* C16: a trajectory whose capital is <= 0 after a trade is marked ruined with
\* its capital clamped to 0; its next step is the return of a result with
\* final_capital = 0 and total_pnl = -C0 that carries the counts, streaks,
\* gross profit/loss and drawdown as they were at ruin: no later trade is run.
C16_RuinTransition ==
    /\ []((pc = "trades" /\ traj.trade_num > 0) =>
              IF traj.broke
              THEN /\ traj.capital = Zero
                   /\ Le(traj.equity_curve[Len(traj.equity_curve) - 1], Zero)
              ELSE Gt(traj.capital, Zero))
    /\ [][(pc = "trades" /\ traj.broke) =>
              LET r == Last(results')
              IN  /\ Returns
                  /\ Len(results') = Len(results) + 1
                  /\ r.final_capital = Zero
                  /\ r.total_pnl = Neg(config.initial_capital)
                  /\ r.total_wins = traj.wins
                  /\ r.total_losses = traj.losses
                  /\ r.longest_win_streak = traj.longest_win_streak
                  /\ r.longest_loss_streak = traj.longest_loss_streak
                  /\ r.max_drawdown = traj.max_drawdown
                  /\ r.equity_curve = traj.equity_curve]_vars

\* a trajectory of two trades ruined by its first trade, below zero
C16_Witness ==
    /\ pc = "trades"
    /\ traj.broke
    /\ traj.trade_num = 1
    /\ config.num_trades = 2
    /\ Lt(traj.equity_curve[2], Zero)

\* C17: _calculate_position_size returns
\* min(capital * kelly_fraction * risk_pct, capital * max_position_pct), with
\* the LOW fraction for every confidence other than HIGH and MEDIUM; the
\* position of every trade is at most max_position_pct of its sizing base.
C17_PositionSize ==
    /\ []((call # <<>> /\ call.op = "_calculate_position_size") =>
              LET kelly == IF call.confidence = "HIGH" THEN config.high_conf_kelly
                           ELSE IF call.confidence = "MEDIUM"
                                THEN config.medium_conf_kelly
                                ELSE config.low_conf_kelly
                  a == Mul(Mul(call.capital, kelly), call.risk_pct)
                  b == Mul(call.capital, config.max_position_pct)
              IN  /\ call.ret = IF Le(a, b) THEN a ELSE b
                  /\ Le(call.ret, b)
                  /\ Ge(call.ret, Zero))
    /\ [][Trades =>
              LET base == IF config.use_compounding
                          THEN traj.capital ELSE config.initial_capital
              IN  Le(traj'.position_size, Mul(base, config.max_position_pct))]_vars

\* a call with an unknown confidence and one where the cap binds
C17_Witness ==
    /\ call # <<>>
    /\ call.op = "_calculate_position_size"
    /\ \/ call.confidence = "UNKNOWN" /\ Gt(call.capital, Zero)
       \/ /\ call.confidence = "MEDIUM"
          /\ call.risk_pct = R(3)
          /\ call.ret = Mul(call.capital, config.max_position_pct)
          /\ Gt(call.ret, Zero)

\* C18: with use_compounding the position of a trade is sized from the capital
\* held just before it, without it from initial_capital, so that it depends
\* on the tier only; the tier and the outcome are drawn alike in both modes.
C18_CompoundingBase ==
    [][Trades =>
          LET tier == traj'.confidence
              kelly == CASE tier = "HIGH" -> config.high_conf_kelly
                         [] tier = "MEDIUM" -> config.medium_conf_kelly
                         [] tier = "LOW" -> config.low_conf_kelly
              Size(base) == FMin(Mul(base, kelly),
                                 Mul(base, config.max_position_pct))
          IN  /\ config.use_compounding =>
                     traj'.position_size = Size(traj.capital)
              /\ ~config.use_compounding =>
                     traj'.position_size = Size(config.initial_capital)
              /\ \E rand_conf \in UniformValues, rand_win \in UniformValues,
                     factor \in FactorValues :
                     LET trade == _simulate_single_trade(tier, rand_win, factor)
                     IN  /\ tier = _generate_confidence_level(rand_conf)
                         /\ traj'.pnl_per_unit = trade.pnl
                         /\ traj'.is_winner = trade.is_winner]_vars

\* without compounding: a second trade taken with less capital than C0
C18_Witness ==
    /\ pc = "trades"
    /\ ~config.use_compounding
    /\ traj.trade_num = 2
    /\ Lt(traj.equity_curve[2], config.initial_capital)
    /\ traj.position_size = Mul(config.initial_capital, config.max_position_pct)

\* the greatest of the first k entries of curve
PeakAt(curve, k) ==
    CHOOSE x \in {curve[j] : j \in 1..k} : \A j \in 1..k : Ge(x, curve[j])

\* C19: after every trade peak_capital is the maximum of C0 and the capital
\* values reached so far, capital <= peak_capital, and max_drawdown is the
\* maximum over the trades so far of (peak at the trade - capital after it);
\* both never decrease along the trajectory and max_drawdown >= 0.
C19_PeakAndDrawdown ==
    /\ [](pc = "trades" =>
             LET ec == traj.equity_curve
                 curve == IF traj.broke THEN SubSeq(ec, 1, Len(ec) - 1) ELSE ec
                 n == Len(curve)
                 dd == {Sub(PeakAt(curve, k), curve[k]) : k \in 2..n}
             IN  /\ n = traj.trade_num + 1
                 /\ traj.peak_capital = PeakAt(curve, n)
                 /\ Le(traj.capital, traj.peak_capital)
                 /\ Ge(traj.max_drawdown, Zero)
                 /\ n = 1 => traj.max_drawdown = Zero
                 /\ n > 1 => /\ traj.max_drawdown \in dd
                             /\ \A d \in dd : Ge(traj.max_drawdown, d))
    /\ [][Trades =>
             /\ Ge(traj'.peak_capital, traj.peak_capital)
             /\ Ge(traj'.max_drawdown, traj.max_drawdown)]_vars

\* after two trades the maximum drawdown is larger than the current one
C19_Witness ==
    /\ pc = "trades"
    /\ traj.trade_num = 2
    /\ ~traj.broke
    /\ Gt(traj.max_drawdown, Sub(traj.peak_capital, traj.capital))

\* the length of the longest run of consecutive entries v in seq
LongestRun(seq, v) ==
    LET Run(n) == \E i \in 1..(Len(seq) - n + 1) :
                      \A j \in i..(i + n - 1) : seq[j] = v
    IN  CHOOSE n \in 0..Len(seq) :
            Run(n) /\ \A m \in (n + 1)..Len(seq) : ~Run(m)

\* the length of the run of equal entries that ends seq
TrailingRun(seq) ==
    CHOOSE n \in 0..Len(seq) :
        /\ \A j \in (Len(seq) - n + 1)..Len(seq) : seq[j] = seq[Len(seq)]
        /\ n < Len(seq) => seq[Len(seq) - n] # seq[Len(seq)]

\* C20: longest_win_streak (longest_loss_streak) is the length of the longest
\* run of consecutive wins (losses) among the executed trades, 0 when there is
\* none; the active streak is the length of the run that ends the sequence.
C20_LongestStreaks ==
    /\ [](pc = "trades" =>
             /\ Len(traj.outcomes) = traj.trade_num
             /\ traj.longest_win_streak = LongestRun(traj.outcomes, TRUE)
             /\ traj.longest_loss_streak = LongestRun(traj.outcomes, FALSE)
             /\ traj.current_streak = TrailingRun(traj.outcomes))
    /\ [][Returns =>
             /\ Last(results').longest_win_streak = LongestRun(traj.outcomes, TRUE)
             /\ Last(results').longest_loss_streak =
                    LongestRun(traj.outcomes, FALSE)]_vars

\* a loss followed by a win: the change of outcome resets the streak to 1
C20_Witness ==
    /\ pc = "trades"
    /\ traj.outcomes = <<FALSE, TRUE>>
    /\ traj.current_streak = 1
    /\ traj.longest_loss_streak = 1

\* C21: the sharpe_ratio of a result is 0 when fewer than 2 returns were
\* recorded or all recorded returns are equal; otherwise it is
\* mean(returns) / std(returns) * sqrt(365): its sign is the sign of the sum
\* of the returns and its square over 365 is sum^2 / (n * sum of squares -
\* sum^2).  One return is recorded per executed trade.
C21_SharpeRatio ==
    [][Returns =>
          LET r == Last(results').sharpe_ratio
              x == traj.returns
              n == Len(x)
              S1 == SumSeq(x)
              S2 == SumSeq([k \in DOMAIN x |-> Mul(x[k], x[k])])
              spread == Sub(Mul(R(n), S2), Mul(S1, S1))
              Degenerate == n < 2 \/ \A i \in DOMAIN x : x[i] = x[1]
          IN  /\ n = traj.trade_num
              /\ r.annualization = TradesPerYear
              /\ Degenerate => r.sign = 0 /\ r.square = Zero
              /\ ~Degenerate =>
                     /\ Gt(spread, Zero)
                     /\ r.sign = Sign(S1)
                     /\ r.square = Div(Mul(S1, S1), spread)]_vars

\* a finished trajectory of two trades with equal returns
C21_Witness ==
    /\ LoopOver
    /\ Len(traj.returns) = 2
    /\ traj.returns[1] = traj.returns[2]

\* C23: probability_of_profit is 100 * #{total_pnl > 0} / M and
\* probability_of_ruin is 100 * #{final_capital < initial_capital / 2} / M,
\* over all M = num_simulations results, those with an infinite profit factor
\* included; both lie in [0, 100].
C23_Probabilities ==
    pc = "done" =>
        LET M == Len(results)
            a == analysis[1]
            profit == Cardinality({k \in 1..M : results[k].total_pnl[1] > 0})
            ruin == Cardinality({k \in 1..M :
                        Lt(Mul(R(2), results[k].final_capital),
                           config.initial_capital)})
        IN  /\ M = config.num_simulations
            /\ a.probability_of_profit = Rat(100 * profit, M)
            /\ a.probability_of_ruin = Rat(100 * ruin, M)
            /\ Ge(a.probability_of_profit, Zero)
            /\ Le(a.probability_of_profit, R(100))
            /\ Ge(a.probability_of_ruin, Zero)
            /\ Le(a.probability_of_ruin, R(100))

\* a profitable trajectory without losses next to a ruined one
C23_Witness ==
    /\ pc = "done"
    /\ Len(results) = 2
    /\ results[1].profit_factor = Inf
    /\ Gt(results[1].total_pnl, Zero)
    /\ results[2].final_capital = Zero
    /\ analysis[1].probability_of_profit = R(50)

\* C24: the drawdown_curve of a result has the length of its equity_curve,
\* starts with 0, entry i is (p_i - equity_i) / p_i * 100 with p_i the maximum
\* of the equity entries up to i (0 when p_i = 0), and every entry is in
\* [0, 100].
C24_DrawdownCurve ==
    ValidConfig =>
        \A i \in DOMAIN results :
            LET ec == results[i].equity_curve
                dc == results[i].drawdown_curve
            IN  /\ Len(dc) = Len(ec)
                /\ dc[1] = Zero
                /\ \A k \in DOMAIN dc :
                       LET p == PeakAt(ec, k)
                       IN  /\ dc[k] = IF Gt(p, Zero)
                                      THEN Mul(Div(Sub(p, ec[k]), p), R(100))
                                      ELSE Zero
                           /\ Ge(dc[k], Zero)
                           /\ Le(dc[k], R(100))

\* C28: with initial_capital > 0 the capital is > 0 at the start of every
\* trade, every equity entry a return is divided by is > 0, and
\* peak_capital >= initial_capital > 0.
C28_CapitalPositive ==
    (ValidConfig /\ pc = "trades") =>
        /\ ~traj.broke => Gt(traj.capital, Zero)
        /\ \A k \in 1..traj.trade_num : Gt(traj.equity_curve[k], Zero)
        /\ Ge(traj.peak_capital, config.initial_capital)
        /\ Gt(config.initial_capital, Zero)

\* the start of a second trade, after a loss that did not ruin
C28_Witness ==
    /\ pc = "trades"
    /\ config.num_trades = 2
    /\ traj.trade_num = 1
    /\ ~traj.broke
    /\ Lt(traj.capital, config.initial_capital)

\* C29: the max_drawdown_pct of a result is the greatest entry of its
\* drawdown_curve and lies in [0, 100] (stated for the results of
\* trajectories that were not ruined).
C29_MaxDrawdownPct ==
    ValidConfig =>
        \A i \in DOMAIN results :
            Gt(results[i].final_capital, Zero) =>
                LET dc == results[i].drawdown_curve
                    m == results[i].max_drawdown_pct
                IN  /\ \E k \in DOMAIN dc : dc[k] = m
                    /\ \A k \in DOMAIN dc : Ge(m, dc[k])
                    /\ Ge(m, Zero)
                    /\ Le(m, R(100))

\* C22: at the end of a trajectory gross_profit is the sum of the positive
\* trade PnLs and gross_loss the sum of the absolute values of the negative
\* trade PnLs of the executed trades (the PnL of trade k is the difference
\* of the equity entries k + 1 and k), whatever the win flags were.
C22_GrossSums ==
    LoopOver =>
        LET ec == traj.equity_curve
            pnl == [k \in 1..traj.trade_num |-> Sub(ec[k + 1], ec[k])]
        IN  /\ traj.gross_profit =
                   SumSeq([k \in DOMAIN pnl |-> FMax(pnl[k], Zero)])
            /\ traj.gross_loss =
                   SumSeq([k \in DOMAIN pnl |-> FMax(Neg(pnl[k]), Zero)])

\* C30: results is reset by every run_simulation call and never accumulated
\* across calls: a call starts with results = [], each finished trajectory
\* appends one entry, nothing else changes results, and a finished run leaves
\* exactly num_simulations entries; analyze_results and export_results after
\* a run aggregate the batch of the latest run, i.e. give the analysis that
\* run returned.
C30_LatestBatch ==
    /\ [](pc = "done" => Len(results) = config.num_simulations)
    /\ [](pc \in {"batch", "trades"} => Len(results) = sim_i)
    /\ [][/\ (pc \in {"idle", "done"} /\ pc' = "batch") => results' = <<>>
          /\ Returns => /\ Len(results') = Len(results) + 1
                         /\ SubSeq(results', 1, Len(results)) = results
          /\ (pc' = pc \/ pc' = "trades" \/ pc' = "done") => results' = results]_vars
    /\ []((pc = "done" /\ call # <<>> /\ call.op = "analyze_results") =>
              /\ ~call.raised
              /\ call.ret = analysis[1])
    /\ []((pc = "done" /\ call # <<>> /\ call.op = "export_results") =>
              /\ ~call.raised
              /\ call.file.analysis = analysis[1])

\* an export after the second run of a simulator of two trajectories
C30_Witness ==
    /\ pc = "done"
    /\ runlog # <<>>
    /\ runlog[1].run = 2
    /\ config.num_simulations = 2
    /\ Len(results) = 2
    /\ results[1] # results[2]
    /\ call # <<>>
    /\ call.op = "export_results"
    /\ ~call.raised

C26_LeverageCaps ==
    (call # <<>> /\ call.op = "calculate_position_with_leverage") =>
        LET c == call.self.config
            r == call.ret
            cap == Mul(c.total_capital, c.max_total_exposure_pct)
            uncorrelated ==
                calculate_position_with_leverage(call.self, call.confidence,
                    call.leverage, call.current_exposure, FALSE)
        IN  /\ r.allowed =>
                   /\ Le(r.position_size, Mul(c.total_capital, c.max_position_pct))
                   /\ Le(Add(call.current_exposure, r.position_size), cap)
            /\ Ge(call.current_exposure, cap) =>
                   /\ ~r.allowed
                   /\ r.position_size = Zero
                   /\ r.margin_required = Zero
            /\ call.is_correlated =>
                   Le(r.position_size, uncorrelated.position_size)

\* an allowed HIGH trade whose Kelly size is cut to the position cap
C26_Witness ==
    /\ call # <<>>
    /\ call.op = "calculate_position_with_leverage"
    /\ call.confidence = "HIGH"
    /\ call.self.config.high_conf_kelly = Rat(1, 4)
    /\ ~call.is_correlated
    /\ call.current_exposure = Zero
    /\ call.ret.allowed
    /\ call.ret.position_size = R(200)

\* the trades of both tiers that are left in a distribution
TotalLeft(remaining) == remaining.HIGH["Total"] + remaining.MEDIUM["Total"]

\* C27: the distribution generate_trade_distribution returns has Totals
\* that sum to total_days * trades_per_day; from then on, after every
\* generate_daily_plan call, every count of trades_remaining is >= 0 and
\* each tier's Total is the sum of its three strategy counts; every call
\* returns, at most 5 trades, as many as the Totals decrease by.
C27_PlanBookkeeping ==
    /\ [](trades_remaining # <<>> =>
              \A tier \in {"HIGH", "MEDIUM"} :
                  LET left == trades_remaining[tier]
                  IN  /\ \A k \in DOMAIN left : left[k] >= 0
                      /\ left["Total"] = left["Q-Pulse"] + left["Q-Trend"]
                                             + left["Q-Mean-Rev"])
    /\ []((call # <<>> /\ call.op = "generate_trade_distribution") =>
              TotalLeft(call.ret) = call.total_days * call.trades_per_day)
    /\ []((call # <<>> /\ call.op = "generate_daily_plan") =>
              /\ ~call.raised
              /\ Len(call.ret) <= 5)
    /\ [][trades_remaining # <<>> =>
              /\ call'.op = "generate_daily_plan"
              /\ ~call'.raised
              /\ Len(call'.ret) = TotalLeft(trades_remaining)
                                      - TotalLeft(trades_remaining')]_vars

\* a day of 5 trades after which a HIGH strategy is used up while other HIGH
\* trades are left
C27_Witness ==
    /\ trades_remaining # <<>>
    /\ call.op = "generate_daily_plan"
    /\ ~call.raised
    /\ Len(call.ret) = 5
    /\ \E k \in DOMAIN call.ret :
           /\ call.ret[k].confidence = "HIGH"
           /\ trades_remaining.HIGH[call.ret[k].strategy] = 0
    /\ trades_remaining.HIGH["Total"] > 0

====
